---- MODULE Spec2Model ----
(***************************************************************************)
(* Model of best_fit_plane_metashape.py: the script that centres a mesh at *)
(* the origin and rotates the chunk so that the mesh's best-fit plane      *)
(* becomes the XY plane.  Real numbers are modelled as exact rationals     *)
(* <<numerator, denominator>> in lowest terms with a positive denominator. *)
(***************************************************************************)
EXTENDS Integers, Sequences, FiniteSets, TLC

(***************************************************************************)
(* Bounds of the model.                                                    *)
(***************************************************************************)
\* Largest number of mesh vertices of an input.
MaxVertices == 4
\* Largest denominator of the unit vectors the eigen-solver may return.
MaxDen == 3
\* Largest denominator of the unit normals handed to rotation synthesis alone.
MaxSynthDen == 7
\* Number of times the script is run on the same chunk.
MaxRuns == 2

(***************************************************************************)
(* Exact rational arithmetic (the script's float arithmetic).              *)
(***************************************************************************)
Abs(x) == IF x < 0 THEN -x ELSE x

RECURSIVE Gcd(_, _)
Gcd(a, b) == IF b = 0 THEN a ELSE Gcd(b, a % b)

Rat(n, d) ==
  LET g == Gcd(Abs(n), Abs(d))
      sg == IF d < 0 THEN -1 ELSE 1
  IN  <<sg * (n \div g), sg * (d \div g)>>

Int2Rat(n) == <<n, 1>>
Zero == Int2Rat(0)
One == Int2Rat(1)

RAdd(a, b) ==
  LET g == Gcd(a[2], b[2])
  IN  Rat(a[1] * (b[2] \div g) + b[1] * (a[2] \div g), (a[2] \div g) * b[2])
RNeg(a) == <<-a[1], a[2]>>
RSub(a, b) == RAdd(a, RNeg(b))
RMul(a, b) ==
  LET g1 == Gcd(Abs(a[1]), b[2])
      g2 == Gcd(Abs(b[1]), a[2])
  IN  <<(a[1] \div g1) * (b[1] \div g2), (a[2] \div g2) * (b[2] \div g1)>>
\* Division; the divisor is not zero.
RDiv(a, b) == RMul(a, Rat(b[2], b[1]))
RLess(a, b) == RSub(a, b)[1] < 0
RGeq0(a) == a[1] >= 0

(***************************************************************************)
(* 3-vectors and 3x3 matrices (numpy arrays).                              *)
(***************************************************************************)
VAdd(a, b) == <<RAdd(a[1], b[1]), RAdd(a[2], b[2]), RAdd(a[3], b[3])>>
VSub(a, b) == <<RSub(a[1], b[1]), RSub(a[2], b[2]), RSub(a[3], b[3])>>
VNeg(a) == <<RNeg(a[1]), RNeg(a[2]), RNeg(a[3])>>
VScale(k, a) == <<RMul(k, a[1]), RMul(k, a[2]), RMul(k, a[3])>>
ZeroVec == <<Zero, Zero, Zero>>

\* np.dot of two 3-vectors.
Dot(a, b) == RAdd(RAdd(RMul(a[1], b[1]), RMul(a[2], b[2])), RMul(a[3], b[3]))

\* np.cross of two 3-vectors.
Cross(a, b) ==
  << RSub(RMul(a[2], b[3]), RMul(a[3], b[2])),
     RSub(RMul(a[3], b[1]), RMul(a[1], b[3])),
     RSub(RMul(a[1], b[2]), RMul(a[2], b[1])) >>

\* np.eye(3).
Eye3 == << <<One, Zero, Zero>>, <<Zero, One, Zero>>, <<Zero, Zero, One>> >>

Col3(A, j) == <<A[1][j], A[2][j], A[3][j]>>
\* The @ operator on 3x3 arrays.
MatMul3(A, B) ==
  LET row(i) == <<Dot(A[i], Col3(B, 1)), Dot(A[i], Col3(B, 2)), Dot(A[i], Col3(B, 3))>>
  IN  <<row(1), row(2), row(3)>>
MatVec3(A, x) == <<Dot(A[1], x), Dot(A[2], x), Dot(A[3], x)>>
MatAdd3(A, B) == <<VAdd(A[1], B[1]), VAdd(A[2], B[2]), VAdd(A[3], B[3])>>
\* Array times scalar.
MatScale3(A, k) == <<VScale(k, A[1]), VScale(k, A[2]), VScale(k, A[3])>>
Transpose3(A) == <<Col3(A, 1), Col3(A, 2), Col3(A, 3)>>

Det2(a, b, c, d) == RSub(RMul(a, d), RMul(b, c))
Det3(A) ==
  RAdd(RSub(RMul(A[1][1], Det2(A[2][2], A[2][3], A[3][2], A[3][3])),
            RMul(A[1][2], Det2(A[2][1], A[2][3], A[3][1], A[3][3]))),
       RMul(A[1][3], Det2(A[2][1], A[2][2], A[3][1], A[3][2])))

(***************************************************************************)
(* Metashape.Matrix (4x4) and Metashape.Vector, as the script uses them.   *)
(***************************************************************************)
Dot4(a, b) ==
  RAdd(RAdd(RMul(a[1], b[1]), RMul(a[2], b[2])),
       RAdd(RMul(a[3], b[3]), RMul(a[4], b[4])))
Col4(A, j) == <<A[1][j], A[2][j], A[3][j], A[4][j]>>

\* Matrix * Matrix.
MatMul4(A, B) ==
  LET row(i) == <<Dot4(A[i], Col4(B, 1)), Dot4(A[i], Col4(B, 2)),
                  Dot4(A[i], Col4(B, 3)), Dot4(A[i], Col4(B, 4))>>
  IN  <<row(1), row(2), row(3), row(4)>>

\* Matrix.mulp(point): the point as (x, y, z, 1), multiplied, divided by w.
mulp(M, p) ==
  LET h == <<p[1], p[2], p[3], One>>
      w == Dot4(M[4], h)
  IN  <<RDiv(Dot4(M[1], h), w), RDiv(Dot4(M[2], h), w), RDiv(Dot4(M[3], h), w)>>

\* Metashape.Matrix().Translation(vector).
Translation(t) ==
  << <<One, Zero, Zero, t[1]>>,
     <<Zero, One, Zero, t[2]>>,
     <<Zero, Zero, One, t[3]>>,
     <<Zero, Zero, Zero, One>> >>

\* The 4x4 matrix built from the 3x3 rotation R.
Embed4(A) ==
  << <<A[1][1], A[1][2], A[1][3], Zero>>,
     <<A[2][1], A[2][2], A[2][3], Zero>>,
     <<A[3][1], A[3][2], A[3][3], Zero>>,
     <<Zero, Zero, Zero, One>> >>

Eye4 == Embed4(Eye3)

(***************************************************************************)
(* numpy: mean, covariance.                                                *)
(***************************************************************************)
RECURSIVE VSum(_)
VSum(ps) == IF ps = <<>> THEN ZeroVec ELSE VAdd(Head(ps), VSum(Tail(ps)))

\* np.mean(points, axis=0), for a non-empty list of points.
Mean(ps) == VScale(Rat(1, Len(ps)), VSum(ps))

\* points - centroid (broadcast over the rows).
Centered(ps, m) == [i \in 1..Len(ps) |-> VSub(ps[i], m)]

RECURSIVE SumProd(_, _, _)
SumProd(ds, j, k) ==
  IF ds = <<>> THEN Zero
  ELSE RAdd(RMul(Head(ds)[j], Head(ds)[k]), SumProd(Tail(ds), j, k))

\* np.cov(X, rowvar=False): the rows are observations; np.cov subtracts the
\* column means itself and divides by N - 1 (N >= 2).
Cov(X) ==
  LET ds == Centered(X, Mean(X))
      f == Rat(1, Len(X) - 1)
      e(j, k) == RMul(f, SumProd(ds, j, k))
  IN  << <<e(1, 1), e(1, 2), e(1, 3)>>,
         <<e(2, 1), e(2, 2), e(2, 3)>>,
         <<e(3, 1), e(3, 2), e(3, 3)>> >>

(***************************************************************************)
(* numpy.linalg.eigh on the 3x3 covariance matrix.  The solver returns     *)
(* unit eigenvectors, eigenvalues ascending; column 0 belongs to the       *)
(* smallest eigenvalue.  Its sign, and its direction inside an eigenspace   *)
(* of dimension above one, are the solver's choice.  The model covers the  *)
(* matrices whose least-variance eigenvector has rational components.      *)
(***************************************************************************)
\* Unit vectors (a, b, c) / d with integer a, b, c and 1 <= d <= D.
UnitsUpTo(D) ==
  { <<Rat(q[1], q[4]), Rat(q[2], q[4]), Rat(q[3], q[4])>> :
      q \in { r \in (-D..D) \X (-D..D) \X (-D..D) \X (1..D) :
                r[1] * r[1] + r[2] * r[2] + r[3] * r[3] = r[4] * r[4] } }

\* The unit vectors the solver may return.
Units == UnitsUpTo(MaxDen)

\* C - lam * I.
Shift(C, lam) == MatAdd3(C, MatScale3(Eye3, RNeg(lam)))

\* A singular symmetric 3x3 matrix is positive semidefinite: its principal
\* minors of order 1 and 2 are >= 0 (the one of order 3, its determinant, is 0).
IsPSD(A) ==
  /\ RGeq0(A[1][1]) /\ RGeq0(A[2][2]) /\ RGeq0(A[3][3])
  /\ RGeq0(Det2(A[1][1], A[1][2], A[2][1], A[2][2]))
  /\ RGeq0(Det2(A[1][1], A[1][3], A[3][1], A[3][3]))
  /\ RGeq0(Det2(A[2][2], A[2][3], A[3][2], A[3][3]))

\* The Rayleigh quotient of a unit vector: its eigenvalue when it is an eigenvector.
Eigenvalue(C, e) == Dot(e, MatVec3(C, e))

\* e is a unit eigenvector of C for the smallest eigenvalue of C.
IsSmallestEigvec(C, e) ==
  /\ MatVec3(C, e) = VScale(Eigenvalue(C, e), e)
  /\ IsPSD(Shift(C, Eigenvalue(C, e)))

\* What eigenvectors[:, 0] may be.
EighSmallest(C) == { e \in Units : IsSmallestEigvec(C, e) }

\* The eigenvalue lam of C is simple: C - lam * I has rank 2 (a nonzero 2x2 minor).
IsSimpleEigenvalue(C, lam) ==
  LET A == Shift(C, lam)
  IN  \E i1 \in 1..2, j1 \in 1..2 : \E i2 \in (i1 + 1)..3, j2 \in (j1 + 1)..3 :
        Det2(A[i1][j1], A[i1][j2], A[i2][j1], A[i2][j2]) # Zero

(***************************************************************************)
(* STEP 2 of the script: sign of the normal, Rodrigues' rotation.          *)
(***************************************************************************)
\* Variant: the sign is left as the solver returned it.
CanonicalizeNoFlip(n) == n
\* "Ensure normal points upward".
Canonicalize(n) == IF RLess(n[3], Zero) THEN VNeg(n) ELSE n

target_vector == <<Zero, Zero, One>>

\* v = np.cross(normal_vector, target_vector).
CrossV(n) == Cross(n, target_vector)

\* s = np.linalg.norm(v) enters the script as the test s == 0 and as s**2:
\* the model carries s**2 = v . v, which is 0 exactly when s is.
s_sq(v) == Dot(v, v)

\* c = np.dot(normal_vector, target_vector).
CosC(n) == Dot(n, target_vector)

\* Variant: the transpose of vx (the signs of its entries swapped).
SkewTransposed(v) ==
  << <<Zero, v[3], RNeg(v[2])>>,
     <<RNeg(v[3]), Zero, v[1]>>,
     <<v[2], RNeg(v[1]), Zero>> >>
\* vx, the skew-symmetric cross-product matrix of v.
Skew(v) ==
  << <<Zero, RNeg(v[3]), v[2]>>,
     <<v[3], Zero, RNeg(v[1])>>,
     <<RNeg(v[2]), v[1], Zero>> >>

\* Variant: the factor without the division by s**2.
CoeffNoDivision(c, s2) == RSub(One, c)
\* (1 - c) / s**2, evaluated only in the else branch.
Coeff(c, s2) == RDiv(RSub(One, c), s2)

\* R = np.eye(3) + vx + vx @ vx * ((1 - c) / s**2).
RodriguesFormula(n) ==
  LET v == CrossV(n)
      vx == Skew(v)
  IN  MatAdd3(MatAdd3(Eye3, vx),
              MatScale3(MatMul3(vx, vx), Coeff(CosC(n), s_sq(v))))

\* The whole branch: identity when s == 0, the formula otherwise.
Rotation(n) == IF s_sq(CrossV(n)) = Zero THEN Eye3 ELSE RodriguesFormula(n)

(***************************************************************************)
(* The script as a state machine.                                          *)
(***************************************************************************)
VARIABLES
  pc,               \* position in the script
  run,              \* which run of the script on this chunk (1, 2, ...)
  has_models,       \* len(chunk.models) > 0
  vertices,         \* model.vertices: the coord of each vertex
  transform,        \* chunk.transform.matrix
  points,           \* vertex coordinates in world space
  centroid,
  T,                \* translation matrix
  cov,
  eigvec,           \* eigenvectors[:, 0] as the solver returned it
  normal_vector,
  R,
  divisor,          \* the s**2 the script divided by, if it divided
  region_reset,     \* chunk.resetRegion() was called in this run
  final_centroid,
  error,            \* message of the exception that ended the run
  transform0,       \* chunk.transform.matrix when the current run started
  transform_first   \* chunk.transform.matrix when the first run started

vars == <<pc, run, has_models, vertices, transform, points,
          centroid, T, cov, eigvec, normal_vector, R, divisor, region_reset,
          final_centroid, error, transform0, transform_first>>

\* Not computed yet.
Null == <<>>
\* No exception was raised.
NoError == ""

\* The pool the vertex coordinates come from: the corners of a 2 x 1 x 1 box
\* and the midpoint of one of its long edges.
PoolPoints ==
  { <<Int2Rat(x), Int2Rat(y), Int2Rat(z)>> : x \in {0, 2}, y \in {0, 1}, z \in {0, 1} }
    \cup { <<One, Zero, Zero>> }

PointLess(p, q) ==
  \/ RLess(p[1], q[1])
  \/ p[1] = q[1] /\ RLess(p[2], q[2])
  \/ p[1] = q[1] /\ p[2] = q[2] /\ RLess(p[3], q[3])

\* Vertex lists of up to MaxVertices distinct pool points.  Mean and
\* covariance do not depend on the order, so one order stands for all.
VertexLists ==
  UNION { { vs \in [1..n -> PoolPoints] : \A i \in 1..(n - 1) : PointLess(vs[i], vs[i + 1]) } :
            n \in 0..MaxVertices }

\* A chunk transform with rotation (90 degrees about X), scale 2 and translation.
TiltedTransform ==
  << <<Int2Rat(2), Zero, Zero, One>>,
     <<Zero, Zero, Int2Rat(-2), Zero>>,
     <<Zero, Int2Rat(2), Zero, Int2Rat(5)>>,
     <<Zero, Zero, Zero, One>> >>

InitialTransforms == {Eye4, TiltedTransform}

\* chunk.transform.matrix.mulp(vertex.coord) for every vertex.
WorldPoints(M, vs) == [i \in 1..Len(vs) |-> mulp(M, vs[i])]

\* Variant: the threshold off by one.
TooFewVerticesOffByOne(vs) == Len(vs) < 2
\* len(vertices) < 3.
TooFewVertices(vs) == Len(vs) < 3

\* Variant: translation by +centroid.
TranslationOfPlus(m) == Translation(m)
\* T = Metashape.Matrix().Translation(Metashape.Vector(-centroid)).
TranslationOf(m) == Translation(VNeg(m))

\* Variant: the translation multiplied on the right.
TranslateUpdateRight(Tm, M) == MatMul4(M, Tm)
\* chunk.transform.matrix = T * chunk.transform.matrix.
TranslateUpdate(Tm, M) == MatMul4(Tm, M)

\* Variant: the rotation multiplied on the right.
RotateUpdateRight(Rm, M) == MatMul4(M, Rm)
\* chunk.transform.matrix = R_matrix * chunk.transform.matrix.
RotateUpdate(Rm, M) == MatMul4(Rm, M)

\* The chunk as the script finds it.  chunk.transform.matrix is affine
\* (bottom row 0 0 0 1), so mulp divides by w = 1.
Init ==
  /\ pc = "check_mesh"
  /\ run = 1
  /\ has_models \in BOOLEAN
  /\ transform \in InitialTransforms
  /\ vertices \in VertexLists
  /\ has_models = FALSE => vertices = <<>>
  \* inputs whose least-variance eigenvector the model's solver can represent
  /\ Len(vertices) >= 3 => EighSmallest(Cov(WorldPoints(transform, vertices))) # {}
  /\ points = Null /\ centroid = Null /\ T = Null /\ cov = Null
  /\ eigvec = Null /\ normal_vector = Null /\ R = Null /\ divisor = Null
  /\ region_reset = FALSE
  /\ final_centroid = Null
  /\ error = NoError
  /\ transform0 = transform
  /\ transform_first = transform

\* Lines 33-39: the mesh must exist.
CheckMesh ==
  /\ pc = "check_mesh"
  /\ IF ~has_models
       THEN pc' = "failed" /\ error' = "No mesh found in the chunk."
       ELSE pc' = "check_vertices" /\ UNCHANGED error
  /\ UNCHANGED <<run, has_models, vertices, transform, points,
                 centroid, T, cov, eigvec, normal_vector, R, divisor,
                 region_reset, final_centroid, transform0, transform_first>>

\* Lines 41-45: at least 3 vertices.
CheckVertices ==
  /\ pc = "check_vertices"
  /\ IF TooFewVertices(vertices)
       THEN pc' = "failed" /\ error' = "Not enough vertices to compute a plane."
       ELSE pc' = "read_points" /\ UNCHANGED error
  /\ UNCHANGED <<run, has_models, vertices, transform, points,
                 centroid, T, cov, eigvec, normal_vector, R, divisor,
                 region_reset, final_centroid, transform0, transform_first>>

\* Lines 47-54: vertex coordinates in world space.
ReadPoints ==
  /\ pc = "read_points"
  /\ points' = WorldPoints(transform, vertices)
  /\ pc' = "center"
  /\ UNCHANGED <<run, has_models, vertices, transform,
                 centroid, T, cov, eigvec, normal_vector, R, divisor,
                 region_reset, final_centroid, error, transform0, transform_first>>

\* Lines 56-65, STEP 1: centroid, translation, first update of the chunk transform.
Center ==
  /\ pc = "center"
  /\ centroid' = Mean(points)
  /\ T' = TranslationOf(centroid')
  /\ transform' = TranslateUpdate(T', transform)
  /\ pc' = "covariance"
  /\ UNCHANGED <<run, has_models, vertices, points,
                 cov, eigvec, normal_vector, R, divisor,
                 region_reset, final_centroid, error, transform0, transform_first>>

\* Lines 68-71: covariance of the centred points.
Covariance ==
  /\ pc = "covariance"
  /\ cov' = Cov(Centered(points, centroid))
  /\ pc' = "eigh"
  /\ UNCHANGED <<run, has_models, vertices, transform, points,
                 centroid, T, eigvec, normal_vector, R, divisor,
                 region_reset, final_centroid, error, transform0, transform_first>>

\* Lines 74-77: the eigenvector of the smallest eigenvalue.
Eigh ==
  /\ pc = "eigh"
  /\ \E e \in EighSmallest(cov) :
       /\ eigvec' = e
       /\ normal_vector' = e
  /\ pc' = "canonicalize"
  /\ UNCHANGED <<run, has_models, vertices, transform, points,
                 centroid, T, cov, R, divisor,
                 region_reset, final_centroid, error, transform0, transform_first>>

\* Line 74: np.linalg.eigh raises LinAlgError when the eigenvalue computation
\* does not converge; the script does not catch it.
EighRaises ==
  /\ pc = "eigh"
  /\ pc' = "failed"
  /\ error' = "Eigenvalues did not converge"
  /\ UNCHANGED <<run, has_models, vertices, transform, points,
                 centroid, T, cov, eigvec, normal_vector, R, divisor,
                 region_reset, final_centroid, transform0, transform_first>>

\* Lines 79-81: the normal points upward.
CanonicalizeNormal ==
  /\ pc = "canonicalize"
  /\ normal_vector' = Canonicalize(normal_vector)
  /\ pc' = "rodrigues"
  /\ UNCHANGED <<run, has_models, vertices, transform, points,
                 centroid, T, cov, eigvec, R, divisor,
                 region_reset, final_centroid, error, transform0, transform_first>>

\* Lines 83-98: the rotation taking the normal to the Z axis.
Rodrigues ==
  /\ pc = "rodrigues"
  /\ R' = Rotation(normal_vector)
  /\ divisor' = IF s_sq(CrossV(normal_vector)) = Zero
                  THEN Null
                  ELSE s_sq(CrossV(normal_vector))
  /\ pc' = "apply_rotation"
  /\ UNCHANGED <<run, has_models, vertices, transform, points,
                 centroid, T, cov, eigvec, normal_vector,
                 region_reset, final_centroid, error, transform0, transform_first>>

\* Lines 100-109: second update of the chunk transform.
ApplyRotation ==
  /\ pc = "apply_rotation"
  /\ transform' = RotateUpdate(Embed4(R), transform)
  /\ pc' = "reset_region"
  /\ UNCHANGED <<run, has_models, vertices, points,
                 centroid, T, cov, eigvec, normal_vector, R, divisor,
                 region_reset, final_centroid, error, transform0, transform_first>>

\* Lines 111-113: reset the region when the chunk has the method
\* (hasattr(chunk, 'resetRegion') is the host's answer).
ResetRegion ==
  /\ pc = "reset_region"
  /\ \E has_resetRegion \in BOOLEAN : region_reset' = has_resetRegion
  /\ pc' = "verify"
  /\ UNCHANGED <<run, has_models, vertices, transform, points,
                 centroid, T, cov, eigvec, normal_vector, R, divisor,
                 final_centroid, error, transform0, transform_first>>

\* Lines 115-124: the centroid of the vertices under the new chunk transform.
VerifyFinal ==
  /\ pc = "verify"
  /\ final_centroid' = Mean(WorldPoints(transform, vertices))
  /\ pc' = "done"
  /\ UNCHANGED <<run, has_models, vertices, transform, points,
                 centroid, T, cov, eigvec, normal_vector, R, divisor,
                 region_reset, error, transform0, transform_first>>

\* The user runs the script again on the aligned chunk.
RunAgain ==
  /\ pc = "done"
  /\ run < MaxRuns
  /\ run' = run + 1
  /\ pc' = "check_mesh"
  /\ transform0' = transform
  /\ points' = Null /\ centroid' = Null /\ T' = Null /\ cov' = Null
  /\ eigvec' = Null /\ normal_vector' = Null /\ R' = Null /\ divisor' = Null
  /\ region_reset' = FALSE
  /\ final_centroid' = Null
  /\ UNCHANGED <<has_models, vertices, transform, error,
                 transform_first>>

Next ==
  \/ CheckMesh
  \/ CheckVertices
  \/ ReadPoints
  \/ Center
  \/ Covariance
  \/ Eigh
  \/ EighRaises
  \/ CanonicalizeNormal
  \/ Rodrigues
  \/ ApplyRotation
  \/ ResetRegion
  \/ VerifyFinal
  \/ RunAgain

Spec == Init /\ [][Next]_vars

(***************************************************************************)
(* Rotation synthesis (lines 83-107) on its own: the normal handed to it   *)
(* is any unit vector, of either orientation.                              *)
(***************************************************************************)
SynthInit ==
  /\ pc = "rodrigues"
  /\ run = 1
  /\ has_models = TRUE
  /\ vertices = <<>>
  /\ transform \in InitialTransforms
  /\ normal_vector \in UnitsUpTo(MaxSynthDen)
  /\ eigvec = normal_vector
  /\ points = Null /\ centroid = Null /\ T = Null /\ cov = Null
  /\ R = Null /\ divisor = Null
  /\ region_reset = FALSE
  /\ final_centroid = Null
  /\ error = NoError
  /\ transform0 = transform
  /\ transform_first = transform

SynthNext ==
  \/ Rodrigues
  \/ ApplyRotation

SpecSynth == SynthInit /\ [][SynthNext]_vars

(***************************************************************************)
(* Properties.                                                             *)
(***************************************************************************)
\* The rotation R of the current run has been computed.
HasRotation == R # Null

\* The input of the first run has a unique least-variance direction.
UniqueDirection ==
  /\ Len(vertices) >= 3
  /\ LET C == Cov(WorldPoints(transform_first, vertices))
     IN  \E e \in EighSmallest(C) : IsSimpleEigenvalue(C, Eigenvalue(C, e))

\* C1: with fewer than 3 vertices the run never gets past the checks: it ends
\* in the explicit error, nothing is computed and the chunk transform stays
\* the one the run started with.
C1_TooFewVerticesFail ==
  Len(vertices) < 3 =>
    /\ pc \in {"check_mesh", "check_vertices", "failed"}
    /\ pc = "failed" => error \in {"No mesh found in the chunk.",
                                   "Not enough vertices to compute a plane."}
    /\ transform = transform0
    /\ T = Null /\ R = Null /\ centroid = Null

C1_Witness ==
  /\ pc = "failed"
  /\ has_models
  /\ Len(vertices) = 2
  /\ error = "Not enough vertices to compute a plane."
  /\ transform = transform0

\* C2: a run that ended in an error left the chunk transform as it was at
\* the start of the run (no translation without the rotation).
C2_NoPartialResult ==
  pc = "failed" => transform = transform0

\* C3: the chunk transform is T4 * M0 from the translation update to the
\* rotation update and R4 * T4 * M0 after it, and the region reset and the
\* final-centroid read happen only once it is R4 * T4 * M0.
C3_TranslationThenRotation ==
  LET T4 == Translation(VNeg(centroid))
  IN  /\ pc \in {"covariance", "eigh", "canonicalize", "rodrigues", "apply_rotation"}
           => transform = MatMul4(T4, transform0)
      /\ pc \in {"reset_region", "verify", "done"}
           => transform = MatMul4(Embed4(R), MatMul4(T4, transform0))
      /\ (region_reset \/ final_centroid # Null) => pc \in {"verify", "done"}

C3_Witness ==
  /\ pc = "done"
  /\ region_reset
  /\ transform0 = TiltedTransform
  /\ centroid # ZeroVec
  /\ R # Eye3
  /\ transform = MatMul4(Embed4(R), MatMul4(Translation(VNeg(centroid)), transform0))

\* C4: after a successful run the mean of the points transformed by the
\* result (translation by -centroid, then R) is the zero vector, and so is
\* the final centroid the script reads back through the chunk transform.
C4_CentroidInvariant ==
  pc = "done" =>
    /\ final_centroid = ZeroVec
    /\ Mean([i \in 1..Len(points) |-> MatVec3(R, VSub(points[i], centroid))]) = ZeroVec

C4_Witness ==
  /\ pc = "done"
  /\ Len(points) >= 3
  /\ centroid # ZeroVec
  /\ R # Eye3
  /\ final_centroid = ZeroVec

\* C5: when the canonicalized normal is not parallel to the target axis
\* (s # 0), the matrix built by the Rodrigues formula takes it to the target.
C5_RotationMapsNormal ==
  (HasRotation /\ s_sq(CrossV(normal_vector)) # Zero)
    => MatVec3(R, normal_vector) = target_vector

C5_Witness ==
  /\ HasRotation
  /\ eigvec = <<Rat(-1, 3), Rat(2, 3), Rat(-2, 3)>>
  /\ normal_vector = <<Rat(1, 3), Rat(-2, 3), Rat(2, 3)>>
  /\ MatVec3(R, normal_vector) = target_vector

\* C6: for a non-degenerate input R is orthonormal with determinant +1, in
\* the identity branch and in the Rodrigues branch.
C6_ProperRotation ==
  (HasRotation /\ IsSimpleEigenvalue(cov, Eigenvalue(cov, eigvec)))
    => /\ MatMul3(Transpose3(R), R) = Eye3
       /\ Det3(R) = One

C6_Witness ==
  /\ HasRotation
  /\ IsSimpleEigenvalue(cov, Eigenvalue(cov, eigvec))
  /\ divisor = Rat(5, 9)
  /\ MatMul3(Transpose3(R), R) = Eye3
  /\ Det3(R) = One

\* C7: had the solver returned the eigenvector with the other sign, the
\* canonicalized normal and the rotation would be the same.
C7_SignIndependent ==
  HasRotation =>
    /\ Canonicalize(VNeg(eigvec)) = normal_vector
    /\ Rotation(Canonicalize(VNeg(eigvec))) = R

C9_Idempotent ==
  (run >= 2 /\ UniqueDirection) =>
    /\ T # Null => (centroid = ZeroVec /\ T = Translation(ZeroVec))
    /\ HasRotation => R = Eye3

C9_Witness ==
  /\ run = 2
  /\ pc = "done"
  /\ UniqueDirection
  /\ transform_first = TiltedTransform
  /\ <<transform0[3][1], transform0[3][2], transform0[3][3]>>
       # <<transform_first[3][1], transform_first[3][2], transform_first[3][3]>>
  /\ T = Translation(ZeroVec)
  /\ R = Eye3

\* C10: the division is never by s**2 = 0, and the identity branch is taken
\* only with the normal equal to the target axis (c = 1): never with c = -1.
C10_IdentityOnlyWhenAligned ==
  HasRotation =>
    /\ divisor # Zero
    /\ (divisor = Null) <=> (s_sq(CrossV(normal_vector)) = Zero)
    /\ divisor = Null => (normal_vector = target_vector /\ CosC(normal_vector) = One)

C10_Witness ==
  /\ HasRotation
  /\ divisor = Null
  /\ eigvec = VNeg(target_vector)
  /\ normal_vector = target_vector
  /\ R = Eye3

====
